---- MODULE Spec2Model ----
(***************************************************************************)
(* The deimoslang compiler (src/src/deimoslang/ir.py) and virtual machine  *)
(* (src/src/deimoslang/vm.py): statement trees are lowered to a flat       *)
(* program of relative jumps, which the VM interprets one instruction per  *)
(* step against an ordered list of clients.                                *)
(***************************************************************************)
EXTENDS Integers, Sequences, FiniteSets, TLC

(***************************************************************************)
(* Bounds of the model.                                                    *)
(***************************************************************************)
MaxBody == 2
MaxClients == 2
MaxSteps == 16
MaxPolls == 5
MaxNest == 3
MaxOps == 2
MaxTasks == 3
MaxWatch == 3
MaxStarts == 2
MaxCompiles == 2

(***************************************************************************)
(* Values.  A Python value stored in a command's data list is either a     *)
(* string-like value (enum member, key, name) or a bool.                   *)
(***************************************************************************)
Str(x) == [s |-> x, b |-> FALSE]
Bool(v) == [s |-> "bool", b |-> v]

PlayerSelector(mass, inverted, nums) ==
    [mass |-> mass, inverted |-> inverted, player_nums |-> nums]
NoSel == PlayerSelector(FALSE, FALSE, {})
MassSel == PlayerSelector(TRUE, FALSE, {})

Expression(kind, sel) == [kind |-> kind, sel |-> sel]
NoExpr == Expression("none", NoSel)
WindowVisible == Expression("window_visible", MassSel)

(***************************************************************************)
(* Instruction: kind + payload.  The payload of the source is one loosely  *)
(* typed attachment; here each kind uses the fields it needs:              *)
(*   jump            off                                                   *)
(*   jump_if/ifn, enter_until   expr, off                                  *)
(*   label, call     ident                                                 *)
(*   deimos_call     sel, act, args   (data = [selector, name, data])      *)
(*   log_window      sel                                                   *)
(***************************************************************************)
Instruction(kind, off, ident, expr, sel, act, args) ==
    [kind |-> kind, off |-> off, ident |-> ident, expr |-> expr,
     sel |-> sel, act |-> act, args |-> args]
Plain(kind) == Instruction(kind, 0, "", NoExpr, NoSel, "", <<>>)
Jump(off) == Instruction("jump", off, "", NoExpr, NoSel, "", <<>>)
CondJump(kind, expr, off) == Instruction(kind, off, "", expr, NoSel, "", <<>>)
Named(kind, ident) == Instruction(kind, 0, ident, NoExpr, NoSel, "", <<>>)

(***************************************************************************)
(* Commands and statements (the parser's output, the compiler's input).    *)
(***************************************************************************)
Command(kind, sel, data) == [kind |-> kind, player_selector |-> sel, data |-> data]
NoCom == Command("none", NoSel, <<>>)

Stmt(type, ident, expr, body, els, com) ==
    [type |-> type, ident |-> ident, expr |-> expr, body |-> body,
     els |-> els, com |-> com]
CommandStmt(com) == Stmt("command", "", NoExpr, <<>>, <<>>, com)
BlockDefStmt(ident, body) == Stmt("blockdef", ident, NoExpr, body, <<>>, NoCom)
IfStmt(expr, branch_true, branch_false) ==
    Stmt("if", "", expr, branch_true, branch_false, NoCom)
WhileStmt(expr, body) == Stmt("while", "", expr, body, <<>>, NoCom)
UntilStmt(expr, body) == Stmt("until", "", expr, body, <<>>, NoCom)
LoopStmt(body) == Stmt("loop", "", NoExpr, body, <<>>, NoCom)
CallStmt(ident) == Stmt("call", ident, NoExpr, <<>>, <<>>, NoCom)
SetVarStmt(ident, expr) == Stmt("setvar", ident, expr, <<>>, <<>>, NoCom)
DecVarStmt(ident) == Stmt("decvar", ident, NoExpr, <<>>, <<>>, NoCom)

(***************************************************************************)
(* Compiler.emit_deimos_call: data = [selector, kind name, command data].  *)
(***************************************************************************)
emit_deimos_call(com) ==
    Instruction("deimos_call", 0, "", NoExpr, com.player_selector, com.kind, com.data)

DeimosCommands ==
    {"sendkey", "click", "teleport", "goto", "usepotion", "buypotions",
     "relog", "tozone"}

(***************************************************************************)
(* Compiler.compile_command.  A waitfor is split in two: a copy whose      *)
(* data[1] is forced to False, then the original when data[1] is True.     *)
(***************************************************************************)
compile_command(com) ==
    CASE com.kind = "kill" -> << Plain("kill") >>
      [] com.kind = "sleep" -> << Plain("sleep") >>
      [] com.kind = "log" ->
            IF com.data[1] = Str("window")
            THEN << Instruction("log_window", 0, "", NoExpr,
                                com.player_selector, "", <<com.data[2]>>) >>
            ELSE << Instruction("log_literal", 0, "", NoExpr, NoSel, "",
                                SubSeq(com.data, 2, Len(com.data))) >>
      [] com.kind \in DeimosCommands -> << emit_deimos_call(com) >>
      [] com.kind = "waitfor" ->
            LET data1 == [com.data EXCEPT ![2] = Bool(FALSE)]
                non_inverted_com == [com EXCEPT !.data = data1]
            IN  << emit_deimos_call(non_inverted_com) >>
                \o (IF com.data[2] = Bool(TRUE)
                    THEN << emit_deimos_call(com) >> ELSE << >>)
      [] com.kind = "load_playstyle" -> << Plain("load_playstyle") >>

(***************************************************************************)
(* The relative offsets of Compiler.compile_stmt.                          *)
(***************************************************************************)
BlockSkipOffsetOntoRet(B) == B + 2
BlockSkipOffset(B) == B + 3
IfTrueOffsetNoSkipJump(F) == F + 1
IfTrueOffset(F) == F + 2
IfJoinOffset(T) == T + 1
LoopBackOffsetPastStart(B) == -B - 1
LoopBackOffset(B) == -B
WhileExitOffsetShort(B1) == B1
WhileExitOffset(B1) == B1 + 1
UntilExitOffset(B1) == B1 + 1

(***************************************************************************)
(* Compiler.compile_stmt / Compiler.compile.                               *)
(***************************************************************************)
RECURSIVE compile(_)
RECURSIVE compile_stmt(_)
compile_stmt(stmt) ==
    CASE stmt.type = "command" -> compile_command(stmt.com)
      [] stmt.type = "blockdef" ->
            LET instrs_body == compile(stmt.body)
            IN  << Jump(BlockSkipOffset(Len(instrs_body))),
                   Named("label", stmt.ident) >>
                \o instrs_body
                \o << Plain("ret"), Plain("nop") >>
      [] stmt.type = "if" ->
            LET instrs_false == compile(stmt.els)
                instrs_true == compile(stmt.body)
            IN  << CondJump("jump_if", stmt.expr, IfTrueOffset(Len(instrs_false))) >>
                \o instrs_false
                \o << Jump(IfJoinOffset(Len(instrs_true))) >>
                \o instrs_true
                \o << Plain("nop") >>
      [] stmt.type = "while" ->
            LET body == compile(stmt.body)
                instrs_body ==
                    Append(body, CondJump("jump_if", stmt.expr, LoopBackOffset(Len(body))))
            IN  << CondJump("jump_ifn", stmt.expr, WhileExitOffset(Len(instrs_body))) >>
                \o instrs_body
                \o << Plain("nop") >>
      [] stmt.type = "until" ->
            LET body == compile(stmt.body)
                instrs_body == Append(body, Jump(LoopBackOffset(Len(body))))
            IN  << CondJump("enter_until", stmt.expr, UntilExitOffset(Len(instrs_body))) >>
                \o instrs_body
                \o << Plain("nop") >>
      [] stmt.type = "loop" ->
            LET body == compile(stmt.body)
            IN  Append(body, Jump(LoopBackOffset(Len(body))))
      [] stmt.type = "call" -> << Named("call", stmt.ident), Plain("nop") >>
      [] stmt.type = "setvar" -> << Named("set_var", stmt.ident) >>
      [] stmt.type = "decvar" -> << Named("dec_var", stmt.ident) >>

compile(stmts) ==
    IF Len(stmts) = 0 THEN << >>
    ELSE compile_stmt(Head(stmts)) \o compile(Tail(stmts))

(***************************************************************************)
(* Scripts: the statement trees the model compiles and runs.               *)
(***************************************************************************)
Uniform(x, n) == [i \in 1..n |-> x]

ComLog == Command("log", NoSel, <<Str("literal"), Str("hello")>>)
ComLogWindow == Command("log", MassSel, <<Str("window"), Str("path")>>)
ComSleep == Command("sleep", NoSel, <<Str("1.0")>>)
ComKill == Command("kill", NoSel, <<>>)
ComSendKey(key) == Command("sendkey", MassSel, <<Str(key)>>)
ComTeleport(sel) == Command("teleport", sel, <<Str("mob")>>)
ComGoto(sel) == Command("goto", sel, <<Str("xyz")>>)
ComWaitfor(kind, completion) == Command("waitfor", MassSel, <<Str(kind), Bool(completion)>>)
ComLoadPlaystyle == Command("load_playstyle", NoSel, <<Str("style")>>)

FanOutSelectors ==
    {MassSel, PlayerSelector(FALSE, FALSE, {0}), PlayerSelector(FALSE, TRUE, {0})}

LogStmt == CommandStmt(ComLog)

AtomStmts ==
    {CommandStmt(c) : c \in {ComLog, ComLogWindow, ComSleep, ComKill, ComSendKey("A"),
                             ComLoadPlaystyle,
                             ComWaitfor("dialog", FALSE), ComWaitfor("dialog", TRUE)}}
    \cup {CommandStmt(ComTeleport(s)) : s \in FanOutSelectors}
    \cup {CommandStmt(ComGoto(MassSel)), CallStmt("a"),
          SetVarStmt("x", NoExpr), DecVarStmt("x")}

BodyAtoms == {LogStmt, CommandStmt(ComSleep), CallStmt("a")}
Bodies0 == {Uniform(x, n) : x \in BodyAtoms, n \in 0..MaxBody}

Struct1 ==
    {IfStmt(WindowVisible, t, f) : t \in Bodies0, f \in Bodies0}
    \cup {WhileStmt(WindowVisible, b) : b \in Bodies0}
    \cup {UntilStmt(WindowVisible, b) : b \in Bodies0}
    \cup {LoopStmt(b) : b \in Bodies0}
    \cup {BlockDefStmt(n, b) : n \in {"a", "b"}, b \in Bodies0}

Struct2 ==
    UNION {{IfStmt(WindowVisible, <<s>>, << >>),
            IfStmt(WindowVisible, <<LogStmt>>, <<s>>),
            WhileStmt(WindowVisible, <<s>>),
            UntilStmt(WindowVisible, <<s>>),
            LoopStmt(<<s>>),
            BlockDefStmt("a", <<s>>)} : s \in Struct1}

(* b1 { log }, b2 { call b1 }, ..., bN { call b(N-1) }, call bN *)
BlockName(i) == <<"b1", "b2", "b3", "b4", "b5">>[i]
Chain(N) ==
    [i \in 1..N |->
        BlockDefStmt(BlockName(i),
                     IF i = 1 THEN <<LogStmt>> ELSE <<CallStmt(BlockName(i - 1))>>)]
    \o <<CallStmt(BlockName(N))>>

IfSendKey ==
    <<IfStmt(WindowVisible, <<CommandStmt(ComSendKey("A"))>>,
                            <<CommandStmt(ComSendKey("B"))>>)>>

Scripts ==
    {<<s>> : s \in AtomStmts \cup Struct1 \cup Struct2}
    \cup {<<LogStmt, s>> : s \in AtomStmts \cup Struct1}
    \cup {<<s, LogStmt>> : s \in Struct1}
    \cup {<<BlockDefStmt(n, b), s>> :
             n \in {"a", "b"}, b \in Bodies0, s \in {CallStmt("a"), CallStmt("b")}}
    \cup {<<BlockDefStmt("a", b), s>> : b \in Bodies0, s \in Struct1}
    \cup {<<CallStmt("a"), BlockDefStmt("a", <<LogStmt>>)>>,
          <<BlockDefStmt("a", <<LogStmt>>), BlockDefStmt("a", <<CommandStmt(ComSleep)>>),
            CallStmt("a")>>,
          IfSendKey, << >>,
          <<CommandStmt(ComWaitfor("zonechange", FALSE))>>,
          <<CommandStmt(ComWaitfor("zonechange", TRUE))>>}
    \cup {Chain(N) : N \in 1..MaxNest}

(***************************************************************************)
(* State of the VM (VM.__init__) and of the caller driving it.             *)
(***************************************************************************)
VARIABLES
    script,       \* the statements compiled into the program (<< >>: assembled directly)
    program,      \* VM.program
    clients,      \* VM._clients, the ordered client list (client id = 0-based index)
    ip,           \* VM._ip, 0-based
    callstack,    \* VM._callstack
    running,      \* VM.running
    killed,       \* VM.killed
    pc,           \* where the caller is: "idle", "run" (inside VM.run),
                  \* "dispatch" (step suspended in a TaskGroup), "raised", "returned"
    error,        \* the exception that left VM.run, or "none"
    tasks,        \* the tasks of the TaskGroup of the instruction being executed
    completion,   \* the waitfor's completion flag (args[-1]) of that instruction
    trace,        \* history: the instructions fetched, with the condition value evaluated
    pollLog,      \* history: the polls made by waitfor tasks
    dispatchLog,  \* history: the exec_deimos_call invocations
    callSites,    \* history: the index of the call instruction of every open call
    selIn,        \* a selector given to _select_players
    selOut,       \* the list _select_players returned for selIn
    selDone,      \* whether selOut holds the result for selIn
    ops,          \* the number of operations the caller has made between runs
    _tasks,       \* TaskWatcher._tasks, the watch list (task ids, in registration order)
    taskState,    \* per task id: "none" (not created), "pending", "cancelling"
                  \* (cancel() called, not yet over), "ok", "failed", "cancelled"
    _running,     \* TaskWatcher._running
    _selftask,    \* TaskWatcher._selftask: 0 (None) or the index of a loop task
    loops,        \* the loop tasks start_loop has created, each with its outcome
    started,      \* history: what each start_loop call returned
    callError,    \* the exception the last TaskWatcher call raised to its caller
    logIndex,     \* log_window: position in the selection of the client whose window
                  \* is being fetched (0: no log_window in progress)
    numIn,        \* a number given to VM.player_by_num
    numOut,       \* what player_by_num did for numIn
    _program,     \* Compiler._program, the list compile() appends to and returns
    returned,     \* history: the content of that list when compile() first returned it
    compiles      \* the number of compile() calls made on the compiler

vmvars == <<script, program, clients, ip, callstack, running, killed, pc, error, tasks,
            completion, trace, pollLog, dispatchLog, callSites, logIndex>>
purevars == <<numIn, numOut, _program, returned, compiles>>
selvars == <<selIn, selOut, selDone>>
watchvars == <<_tasks, taskState, _running, _selftask, loops, started, callError>>
vars == <<script, program, clients, ip, callstack, running, killed, pc, error, tasks,
          completion, trace, pollLog, dispatchLog, callSites, selIn, selOut, selDone,
          ops, _tasks, taskState, _running, _selftask, loops, started, callError,
          logIndex, numIn, numOut, _program, returned, compiles>>

Pending == [raised |-> "pending", client |-> -1]
InitPure ==
    /\ numIn = 1
    /\ numOut = Pending
    /\ _program = << >>
    /\ returned = << >>
    /\ compiles = 0

TaskIds == 1..MaxTasks

(* TaskWatcher.__init__ *)
InitWatch ==
    /\ _tasks = << >>
    /\ taskState = [t \in TaskIds |-> "none"]
    /\ _running = FALSE
    /\ _selftask = 0
    /\ loops = << >>
    /\ started = << >>
    /\ callError = "none"

ClientList(n) == [i \in 1..n |-> i - 1]

(***************************************************************************)
(* VM._select_players                                                      *)
(***************************************************************************)
RECURSIVE SelectLoop(_, _, _, _)
SelectLoop(cl, nums, inverted, i) ==
    IF i >= Len(cl) THEN << >>
    ELSE (IF (i \in nums) = inverted THEN << >> ELSE <<cl[i + 1]>>)
         \o SelectLoop(cl, nums, inverted, i + 1)

(***************************************************************************)
(* VM.player_by_num: the result is the exception raised, or the client     *)
(* returned. A negative list index counts from the end of the list, and    *)
(* one below -len(list) raises IndexError.                                 *)
(***************************************************************************)
player_by_num(cl, num) ==
    LET i == num - 1
    IN  IF i >= Len(cl) THEN [raised |-> "VMError", client |-> -1]
        ELSE IF i >= 0 THEN [raised |-> "none", client |-> cl[i + 1]]
        ELSE IF 0 - i <= Len(cl)
             THEN [raised |-> "none", client |-> cl[Len(cl) + i + 1]]
             ELSE [raised |-> "IndexError", client |-> -1]

_select_players_never_inverted(cl, selector) ==
    IF selector.mass THEN cl
    ELSE SelectLoop(cl, selector.player_nums, FALSE, 0)
_select_players(cl, selector) ==
    IF selector.mass THEN cl
    ELSE SelectLoop(cl, selector.player_nums, selector.inverted, 0)

(***************************************************************************)
(* Programs assembled directly into VM.program (a plain attribute), in the *)
(* layout of the compiler but without the nop after a block and a call:    *)
(*   jump over the blocks; label b1, log, ret; label b2, call b1, ret; ..; *)
(*   call bN; log                                                          *)
(***************************************************************************)
LogInstr == Instruction("log_literal", 0, "", NoExpr, NoSel, "", <<Str("hello")>>)
RECURSIVE NestedBlocks(_)
NestedBlocks(N) ==
    IF N = 0 THEN << >>
    ELSE NestedBlocks(N - 1)
         \o << Named("label", BlockName(N)),
                IF N = 1 THEN LogInstr ELSE Named("call", BlockName(N - 1)),
                Plain("ret") >>
NestedCalls(N) ==
    << Jump(Len(NestedBlocks(N)) + 1) >> \o NestedBlocks(N)
    \o << Named("call", BlockName(N)), LogInstr >>

(* the same without the leading jump: execution falls into the first block *)
FallInto(N) ==
    NestedBlocks(N) \o << Named("call", BlockName(N)), LogInstr >>

(* two blocks named a above the call, and a call of c whose only label is   *)
(* below it:                                                                *)
(*   0 jump 7; 1 label a, log, ret; 4 label a, sleep, ret; 7 call a; 8 log; *)
(*   9 call c; 10 label c, ret                                              *)
ShadowedLabels ==
    << Jump(7),
       Named("label", "a"), LogInstr, Plain("ret"),
       Named("label", "a"), Plain("sleep"), Plain("ret"),
       Named("call", "a"), LogInstr,
       Named("call", "c"),
       Named("label", "c"), Plain("ret") >>

AssembledPrograms ==
    {NestedCalls(N) : N \in 1..MaxNest} \cup {FallInto(N) : N \in 1..MaxNest}
    \cup {ShadowedLabels}

(***************************************************************************)
(* Init: a VM constructed over a client list (VM.__init__), with a program *)
(* loaded by VM.load_from_text.                                            *)
(***************************************************************************)
InitSel ==
    /\ selIn = NoSel
    /\ selOut = << >>
    /\ selDone = FALSE
    /\ ops = 0
    /\ InitWatch
    /\ logIndex = 0
    /\ InitPure

Init ==
    /\ \/ \E stmts \in Scripts : script = stmts /\ program = compile(stmts)
       \/ script = << >> /\ program \in AssembledPrograms
    /\ \E n \in 0..MaxClients : clients = ClientList(n)
    /\ ip = 0
    /\ callstack = << >>
    /\ running = FALSE
    /\ killed = FALSE
    /\ pc = "idle"
    /\ error = "none"
    /\ tasks = << >>
    /\ completion = FALSE
    /\ trace = << >>
    /\ pollLog = << >>
    /\ dispatchLog = << >>
    /\ callSites = << >>
    /\ InitSel

At(i) == program[i + 1]
Cur == At(ip)
ClientSet == {clients[i] : i \in 1..Len(clients)}

(* a step of VM.run's loop that fetches program[_ip] *)
Fetchable ==
    /\ pc = "run"
    /\ running
    /\ Len(trace) < MaxSteps
    /\ ip >= 0
    /\ ip < Len(program)

Fetched(cond) == Append(trace, [ip |-> ip, cond |-> cond])

(* vm.py:312-313: if self._ip >= len(self.program): self.stop() *)
StopAtEndPastEnd(newip) == IF newip > Len(program) THEN FALSE ELSE running
StopAtEnd(newip) == IF newip >= Len(program) THEN FALSE ELSE running

(* the instruction completed and left the pointer at newip *)
Finish(newip, cond) ==
    /\ ip' = newip
    /\ running' = StopAtEnd(newip)
    /\ trace' = Fetched(cond)
    /\ UNCHANGED <<script, program, clients, callstack, killed, pc, error, tasks, completion,
                   pollLog, dispatchLog, callSites, selvars, purevars, logIndex, ops, watchvars>>

(* an exception leaves VM.step and VM.run: nothing catches it *)
RaisedStops == FALSE
RaisedRunning == running
Raise(kind) ==
    /\ error' = kind
    /\ pc' = "raised"
    /\ running' = RaisedRunning
    /\ UNCHANGED <<script, program, clients, ip, killed, tasks, completion, pollLog, selvars, purevars, logIndex, ops, watchvars>>

(* the instruction fetched raises before it changes anything *)
RaiseInStep(kind) ==
    /\ Raise(kind)
    /\ trace' = Fetched(FALSE)
    /\ UNCHANGED <<callstack, dispatchLog, callSites>>

(* vm.py:234: program[_ip] with _ip at or past the end is an IndexError     *)
StepOutOfRange ==
    /\ pc = "run"
    /\ running
    /\ ip >= Len(program)
    /\ Raise("IndexError")
    /\ UNCHANGED <<callstack, trace, dispatchLog, callSites>>

(***************************************************************************)
(* VM.run, VM.stop, VM.kill                                                *)
(***************************************************************************)
Run ==
    /\ pc = "idle"
    /\ running' = TRUE
    /\ pc' = "run"
    /\ UNCHANGED <<script, program, clients, ip, callstack, killed, error, tasks, completion,
                   trace, pollLog, dispatchLog, callSites, selvars, purevars, logIndex, ops, watchvars>>

RunReturn ==
    /\ pc = "run"
    /\ ~running
    /\ pc' = "returned"
    /\ UNCHANGED <<script, program, clients, ip, callstack, running, killed, error, tasks,
                   completion, trace, pollLog, dispatchLog, callSites, selvars, purevars, logIndex, ops, watchvars>>

(***************************************************************************)
(* VM.eval / VM._eval_command_expression: window_visible and in_zone hold  *)
(* when they hold of every selected client; vis is what the clients answer.*)
(***************************************************************************)
EvalRaises(expr) == expr.kind \notin {"window_visible", "in_zone"}
EvalValue(expr, vis) ==
    LET sel == _select_players(clients, expr.sel)
    IN  \A i \in 1..Len(sel) : vis[sel[i]]

(***************************************************************************)
(* VM.step, one action per instruction kind.                               *)
(***************************************************************************)
StepKill ==
    /\ Fetchable
    /\ Cur.kind = "kill"
    /\ killed' = TRUE
    /\ running' = FALSE
    /\ trace' = Fetched(FALSE)
    /\ UNCHANGED <<script, program, clients, ip, callstack, pc, error, tasks, completion,
                   pollLog, dispatchLog, callSites, selvars, purevars, logIndex, ops, watchvars>>

StepSleep ==
    /\ Fetchable
    /\ Cur.kind = "sleep"
    /\ Finish(ip + 1, FALSE)

StepJump ==
    /\ Fetchable
    /\ Cur.kind = "jump"
    /\ Finish(ip + Cur.off, FALSE)

JumpIfTarget(v, off) == IF v THEN ip + off ELSE ip + 1
StepJumpIf ==
    /\ Fetchable
    /\ Cur.kind = "jump_if"
    /\ IF EvalRaises(Cur.expr)
       THEN RaiseInStep("VMError")
       ELSE \E vis \in [ClientSet -> BOOLEAN] :
               LET v == EvalValue(Cur.expr, vis)
               IN  Finish(JumpIfTarget(v, Cur.off), v)

JumpIfnTarget(v, off) == IF v THEN ip + 1 ELSE ip + off
StepJumpIfn ==
    /\ Fetchable
    /\ Cur.kind = "jump_ifn"
    /\ IF EvalRaises(Cur.expr)
       THEN RaiseInStep("VMError")
       ELSE \E vis \in [ClientSet -> BOOLEAN] :
               LET v == EvalValue(Cur.expr, vis)
               IN  Finish(JumpIfnTarget(v, Cur.off), v)

(* vm.py:266-273: scan upwards from the call for the label; -1: not found *)
RECURSIVE ScanLabel(_, _)
ScanLabelFirst(j, label) ==
    LET S == {k \in 0..j - 1 : At(k).kind = "label" /\ At(k).ident = label}
    IN  IF S = {} THEN -1 ELSE CHOOSE k \in S : \A m \in S : k <= m
ScanLabel(j, label) ==
    LET k == j - 1
    IN  IF k < 0 THEN -1
        ELSE IF At(k).kind # "label" \/ At(k).ident # label
             THEN ScanLabel(k, label)
             ELSE k

ReturnAddress(p) == p + 1
StepCall ==
    /\ Fetchable
    /\ Cur.kind = "call"
    /\ callstack' = Append(callstack, ReturnAddress(ip))
    /\ callSites' = Append(callSites, ip)
    /\ trace' = Fetched(FALSE)
    /\ LET j == ScanLabel(ip, Cur.ident)
       IN  IF j < 0
           THEN Raise("VMError") /\ UNCHANGED dispatchLog
           ELSE /\ ip' = j
                /\ running' = StopAtEnd(j)
                /\ UNCHANGED <<script, program, clients, killed, pc, error, tasks, completion,
                               pollLog, dispatchLog, selvars, purevars, logIndex, ops, watchvars>>

(* list.pop(): the last element; IndexError on an empty list *)
PopValueOldest(stack) == stack[1]
PopValue(stack) == stack[Len(stack)]
PopRest(stack) == SubSeq(stack, 1, Len(stack) - 1)
StepRet ==
    /\ Fetchable
    /\ Cur.kind = "ret"
    /\ trace' = Fetched(FALSE)
    /\ IF Len(callstack) = 0
       THEN Raise("IndexError") /\ UNCHANGED <<callstack, dispatchLog, callSites>>
       ELSE /\ ip' = PopValue(callstack)
            /\ callstack' = PopRest(callstack)
            /\ callSites' = PopRest(callSites)
            /\ running' = StopAtEnd(PopValue(callstack))
            /\ UNCHANGED <<script, program, clients, killed, pc, error, tasks, completion,
                           pollLog, dispatchLog, selvars, purevars, logIndex, ops, watchvars>>

StepLogLiteral ==
    /\ Fetchable
    /\ Cur.kind = "log_literal"
    /\ Finish(ip + 1, FALSE)

(* vm.py:292-303: the windows are fetched one client after the other inside *)
(* the TaskGroup block; a missing window raises inside the block            *)
StepLogWindow ==
    /\ Fetchable
    /\ Cur.kind = "log_window"
    /\ IF Len(_select_players(clients, Cur.sel)) = 0
       THEN Finish(ip + 1, FALSE)
       ELSE /\ logIndex' = 1
            /\ pc' = "logging"
            /\ trace' = Fetched(FALSE)
            /\ UNCHANGED <<script, program, clients, ip, callstack, running, killed, error,
                           tasks, completion, pollLog, dispatchLog, callSites, selvars,
                           purevars, ops, watchvars>>

(* one turn of the for loop: get_window_from_path and maybe_text of one    *)
(* client are awaited before the loop goes on to the next client           *)
FetchWindow ==
    /\ pc = "logging"
    /\ \E found \in BOOLEAN :
          IF ~found
          THEN /\ error' = "ExceptionGroup"
               /\ pc' = "raised"
               /\ logIndex' = 0
               /\ UNCHANGED <<ip, running>>
          ELSE IF logIndex < Len(_select_players(clients, Cur.sel))
          THEN /\ logIndex' = logIndex + 1
               /\ UNCHANGED <<ip, running, pc, error>>
          ELSE /\ logIndex' = 0
               /\ ip' = ip + 1
               /\ running' = StopAtEnd(ip + 1)
               /\ pc' = "run"
               /\ UNCHANGED error
    /\ UNCHANGED <<script, program, clients, callstack, killed, tasks, completion, trace,
                   pollLog, dispatchLog, callSites, selvars, purevars, ops, watchvars>>

StepLabel ==
    /\ Fetchable
    /\ Cur.kind = "label"
    /\ Finish(ip + 1, FALSE)

(* vm.py:310-311: every kind without a case above *)
StepKinds ==
    {"kill", "sleep", "jump", "jump_if", "jump_ifn", "call", "ret", "log_literal",
     "log_window", "label", "deimos_call"}
StepUnimplemented ==
    /\ Fetchable
    /\ Cur.kind \notin StepKinds
    /\ RaiseInStep("VMError")

(***************************************************************************)
(* VM.exec_deimos_call.  The per-client operations of one instruction are  *)
(* tasks of an asyncio.TaskGroup: the block is left only when every task   *)
(* has finished; the first failing task cancels its siblings and the group *)
(* raises an ExceptionGroup.                                               *)
(***************************************************************************)
TeleportKinds ==
    {"position", "entity_literal", "entity_vague", "mob", "quest", "friend_icon",
     "friend_name"}
WaitforMethodMap == {"dialog", "battle", "free"}

Task(client, polled, pred, impl) ==
    [client |-> client, polled |-> polled, pred |-> pred, impl |-> impl,
     invert |-> FALSE, state |-> "running"]

(* one operation per selected client: client.teleport(..), client.goto(..) *)
ActionTasks(sel) == [i \in 1..Len(sel) |-> Task(sel[i], sel[i], "none", FALSE)]

(* vm.py:202-205, 222-225: proxy reads the loop variable `client` when it  *)
(* is called, after the loop has bound it to the last selected client      *)
ProxyClient(sel, i) == sel[Len(sel)]
WaitforTasks(sel, pred, impl) ==
    [i \in 1..Len(sel) |-> Task(sel[i], ProxyClient(sel, i), pred, impl)]

(* vm.py:216-218: client.is_loading is bound when the task is created *)
LoadingTasks(sel) ==
    [i \in 1..Len(sel) |->
        [Task(sel[i], sel[i], "loading", FALSE) EXCEPT !.invert = TRUE]]

LastArg(args) == args[Len(args)]

Dispatched == Append(dispatchLog,
                     [ip |-> ip, act |-> Cur.act,
                      arg |-> IF Len(Cur.args) = 0 THEN "" ELSE Cur.args[1].s])

StartGroup(newtasks, compl) ==
    /\ tasks' = newtasks
    /\ completion' = compl
    /\ pc' = "dispatch"
    /\ UNCHANGED <<script, program, clients, ip, callstack, running, killed, error, pollLog,
                   callSites, selvars, purevars, logIndex, ops, watchvars>>

RaiseInCall(kind) ==
    /\ Raise(kind)
    /\ UNCHANGED <<callstack, callSites>>

StepDeimosCall ==
    /\ Fetchable
    /\ Cur.kind = "deimos_call"
    /\ trace' = Fetched(FALSE)
    /\ dispatchLog' = Dispatched
    /\ LET sel == _select_players(clients, Cur.sel)
           args == Cur.args
       IN  CASE Cur.act = "teleport" ->
                    IF args[1].s \in TeleportKinds
                    THEN StartGroup(ActionTasks(sel), FALSE)
                    ELSE RaiseInCall("ExceptionGroup")
             [] Cur.act = "goto" -> StartGroup(ActionTasks(sel), FALSE)
             [] Cur.act = "waitfor" ->
                    IF args[1].s \in WaitforMethodMap \cup {"window"}
                    THEN StartGroup(WaitforTasks(sel, args[1].s, TRUE), LastArg(args).b)
                    ELSE IF args[1].s = "zonechange"
                    THEN StartGroup(WaitforTasks(sel, "zonechange", FALSE), LastArg(args).b)
                    ELSE RaiseInCall("VMError")
             [] OTHER -> RaiseInCall("VMError")

Terminal(t) == t.state \in {"done", "failed", "cancelled"}

(* a per-client action (teleport, goto) finishes *)
TaskDone(i) ==
    /\ pc = "dispatch"
    /\ i \in 1..Len(tasks)
    /\ tasks[i].state = "running"
    /\ tasks[i].pred = "none"
    /\ tasks' = [tasks EXCEPT ![i].state = "done"]
    /\ UNCHANGED <<script, program, clients, ip, callstack, running, killed, pc, error,
                   completion, trace, pollLog, dispatchLog, callSites, selvars, purevars, logIndex, ops, watchvars>>

(* vm.py:184-192: waitfor_coro polls until invert ^ result; waitfor_impl   *)
(* runs it with invert False and then, on completion, with invert True     *)
PollExits(invert, r) == invert # r
SecondPhaseAlways(t, compl) == t.impl /\ ~t.invert
SecondPhase(t, compl) == t.impl /\ compl /\ ~t.invert
TaskPoll(i) ==
    /\ pc = "dispatch"
    /\ i \in 1..Len(tasks)
    /\ tasks[i].state = "running"
    /\ tasks[i].pred # "none"
    /\ Len(pollLog) < MaxPolls
    /\ \E r \in BOOLEAN :
          /\ pollLog' = Append(pollLog,
                               [ip |-> ip, task |-> i, polled |-> tasks[i].polled,
                                pred |-> tasks[i].pred, invert |-> tasks[i].invert,
                                result |-> r])
          /\ tasks' = IF ~PollExits(tasks[i].invert, r) THEN tasks
                      ELSE IF SecondPhase(tasks[i], completion)
                           THEN [tasks EXCEPT ![i].invert = TRUE]
                           ELSE [tasks EXCEPT ![i].state = "done"]
    /\ UNCHANGED <<script, program, clients, ip, callstack, running, killed, pc, error,
                   completion, trace, dispatchLog, callSites, selvars, purevars, logIndex, ops, watchvars>>

(* a per-client operation raises: the group cancels the tasks still pending *)
CancelOthers(ts, i) ==
    [j \in 1..Len(ts) |->
        IF j = i THEN [ts[j] EXCEPT !.state = "failed"]
        ELSE IF ts[j].state = "running" THEN [ts[j] EXCEPT !.state = "cancelling"]
        ELSE ts[j]]
TaskFail(i) ==
    /\ pc = "dispatch"
    /\ i \in 1..Len(tasks)
    /\ tasks[i].state = "running"
    /\ tasks' = CancelOthers(tasks, i)
    /\ UNCHANGED <<script, program, clients, ip, callstack, running, killed, pc, error,
                   completion, trace, pollLog, dispatchLog, callSites, selvars, purevars, logIndex, ops, watchvars>>

TaskCancelled(i) ==
    /\ pc = "dispatch"
    /\ i \in 1..Len(tasks)
    /\ tasks[i].state = "cancelling"
    /\ tasks' = [tasks EXCEPT ![i].state = "cancelled"]
    /\ UNCHANGED <<script, program, clients, ip, callstack, running, killed, pc, error,
                   completion, trace, pollLog, dispatchLog, callSites, selvars, purevars, logIndex, ops, watchvars>>

(* TaskGroup.__aexit__: the block is left once no task is pending *)
JoinReadyFirstDone(ts) == \A i \in 1..Len(ts) : i = 1 => Terminal(ts[i])
JoinReady(ts) == \A i \in 1..Len(ts) : Terminal(ts[i])
GroupFailed(ts) == \E i \in 1..Len(ts) : ts[i].state = "failed"
(* vm.py:215-218: after the zonechange group, the loading group *)
NeedsLoadingGroup ==
    /\ Cur.act = "waitfor"
    /\ Cur.args[1].s = "zonechange"
    /\ completion
    /\ \A i \in 1..Len(tasks) : tasks[i].pred # "loading"

Join ==
    /\ pc = "dispatch"
    /\ JoinReady(tasks)
    /\ IF GroupFailed(tasks)
       THEN /\ error' = "ExceptionGroup"
            /\ pc' = "raised"
            /\ UNCHANGED <<ip, running, tasks>>
       ELSE IF NeedsLoadingGroup
       THEN /\ tasks' = LoadingTasks(_select_players(clients, Cur.sel))
            /\ UNCHANGED <<ip, running, pc, error>>
       ELSE /\ ip' = ip + 1
            /\ running' = StopAtEnd(ip + 1)
            /\ pc' = "run"
            /\ tasks' = << >>
            /\ UNCHANGED error
    /\ UNCHANGED <<script, program, clients, callstack, killed, completion, trace, pollLog,
                   dispatchLog, callSites, selvars, purevars, logIndex, ops, watchvars>>

Next ==
    \/ Run
    \/ RunReturn
    \/ StepKill
    \/ StepSleep
    \/ StepJump
    \/ StepJumpIf
    \/ StepJumpIfn
    \/ StepCall
    \/ StepRet
    \/ StepLogLiteral
    \/ StepLogWindow
    \/ FetchWindow
    \/ StepLabel
    \/ StepUnimplemented
    \/ StepOutOfRange
    \/ StepDeimosCall
    \/ \E i \in 1..MaxClients : TaskDone(i)
    \/ \E i \in 1..MaxClients : TaskPoll(i)
    \/ \E i \in 1..MaxClients : TaskFail(i)
    \/ \E i \in 1..MaxClients : TaskCancelled(i)
    \/ Join

Spec == Init /\ [][Next]_vars

TypeOK ==
    /\ ip \in Int
    /\ running \in BOOLEAN
    /\ killed \in BOOLEAN
    /\ pc \in {"idle", "run", "dispatch", "logging", "raised", "returned"}
    /\ error \in {"none", "VMError", "ExceptionGroup", "IndexError"}

(***************************************************************************)
(* The life of one VM: its caller loads programs, runs them, gets control   *)
(* back when VM.run returns or raises, and stops or resets the VM between   *)
(* runs.                                                                    *)
(***************************************************************************)
LifeScripts ==
    {<<CommandStmt(ComKill)>>,
     <<LogStmt, CommandStmt(ComSleep)>>,
     <<IfStmt(WindowVisible, <<LogStmt>>, << >>)>>,
     <<WhileStmt(WindowVisible, <<LogStmt>>)>>,
     <<CommandStmt(ComLogWindow)>>,
     <<CommandStmt(ComTeleport(MassSel))>>,
     <<CommandStmt(ComWaitfor("dialog", FALSE))>>,
     <<BlockDefStmt("a", <<LogStmt>>)>>}

InitLifecycle ==
    /\ \/ \E stmts \in LifeScripts : script = stmts /\ program = compile(stmts)
       \/ script = << >> /\ program \in {NestedCalls(1), FallInto(1)}
    /\ clients \in {ClientList(0), ClientList(2)}
    /\ ip = 0
    /\ callstack = << >>
    /\ running = FALSE
    /\ killed = FALSE
    /\ pc = "idle"
    /\ error = "none"
    /\ tasks = << >>
    /\ completion = FALSE
    /\ trace = << >>
    /\ pollLog = << >>
    /\ dispatchLog = << >>
    /\ callSites = << >>
    /\ InitSel

(* VM.run has returned or raised: the caller has control again *)
Handled ==
    /\ pc \in {"raised", "returned"}
    /\ ops < MaxOps
    /\ ops' = ops + 1
    /\ pc' = "idle"
    /\ error' = "none"
    /\ tasks' = << >>
    /\ UNCHANGED <<script, program, clients, ip, callstack, running, killed, completion,
                   trace, pollLog, dispatchLog, callSites, selvars, purevars, logIndex, watchvars>>

(* vm.py:35-36 *)
Stop ==
    /\ pc = "idle"
    /\ ops < MaxOps
    /\ ops' = ops + 1
    /\ running' = FALSE
    /\ UNCHANGED <<script, program, clients, ip, callstack, killed, pc, error, tasks,
                   completion, trace, pollLog, dispatchLog, callSites, selvars, purevars, logIndex, watchvars>>

(* vm.py:30-33 *)
Reset ==
    /\ pc = "idle"
    /\ ops < MaxOps
    /\ ops' = ops + 1
    /\ program' = << >>
    /\ script' = << >>
    /\ ip' = 0
    /\ callstack' = << >>
    /\ callSites' = << >>
    /\ UNCHANGED <<clients, running, killed, pc, error, tasks, completion, trace, pollLog,
                   dispatchLog, selvars, purevars, logIndex, watchvars>>

(* vm.py:42-44: load_from_text assigns the compiled program and nothing else *)
Load ==
    /\ pc = "idle"
    /\ ops < MaxOps
    /\ ops' = ops + 1
    /\ \E stmts \in LifeScripts :
          /\ script' = stmts
          /\ program' = compile(stmts)
    /\ UNCHANGED <<clients, ip, callstack, running, killed, pc, error, tasks, completion,
                   trace, pollLog, dispatchLog, callSites, selvars, purevars, logIndex, watchvars>>

NextLifecycle ==
    \/ Next
    \/ Handled
    \/ Stop
    \/ Reset
    \/ Load

SpecLifecycle == InitLifecycle /\ [][NextLifecycle]_vars

(***************************************************************************)
(* TaskWatcher: tasks are created, registered and unregistered by the       *)
(* supervisor's owner, end on their own (or are cancelled), and the loop    *)
(* tasks created by start_loop tick over the watch list.                    *)
(***************************************************************************)
InitWatcher ==
    /\ script = << >>
    /\ program = << >>
    /\ clients = << >>
    /\ ip = 0
    /\ callstack = << >>
    /\ running = FALSE
    /\ killed = FALSE
    /\ pc = "idle"
    /\ error = "none"
    /\ tasks = << >>
    /\ completion = FALSE
    /\ trace = << >>
    /\ pollLog = << >>
    /\ dispatchLog = << >>
    /\ callSites = << >>
    /\ InitSel

(* asyncio.Task.done() *)
TaskIsDone(st) == st \in {"ok", "failed", "cancelled"}

(* asyncio.create_task by the owner of the task *)
CreateTask(t) ==
    /\ taskState[t] = "none"
    /\ taskState' = [taskState EXCEPT ![t] = "pending"]
    /\ UNCHANGED <<vmvars, selvars, purevars, ops, _tasks, _running, _selftask, loops, started,
                   callError>>

(* task_watcher.py:13-14 *)
Register(t) ==
    /\ taskState[t] # "none"
    /\ Len(_tasks) < MaxWatch
    /\ _tasks' = Append(_tasks, t)
    /\ callError' = "none"
    /\ UNCHANGED <<vmvars, selvars, purevars, ops, taskState, _running, _selftask, loops, started>>

(* task_watcher.py:21-24 *)
NewTask(t) ==
    /\ taskState[t] = "none"
    /\ Len(_tasks) < MaxWatch
    /\ taskState' = [taskState EXCEPT ![t] = "pending"]
    /\ _tasks' = Append(_tasks, t)
    /\ callError' = "none"
    /\ UNCHANGED <<vmvars, selvars, purevars, ops, _running, _selftask, loops, started>>

(* list.remove(x): removes the first occurrence; ValueError when absent *)
FirstIndex(list, x) ==
    CHOOSE i \in 1..Len(list) : list[i] = x /\ \A j \in 1..i - 1 : list[j] # x
ListRemove(list, x) ==
    SubSeq(list, 1, FirstIndex(list, x) - 1)
    \o SubSeq(list, FirstIndex(list, x) + 1, Len(list))
Contains(list, x) == \E i \in 1..Len(list) : list[i] = x

(* asyncio.Task.cancel(): requested now, takes effect when the task resumes *)
TaskCancel(st) == IF st = "pending" THEN "cancelling" ELSE st

(* task_watcher.py:16-19 *)
Unregister(t) ==
    /\ taskState[t] # "none"
    /\ taskState' = [taskState EXCEPT ![t] = IF TaskIsDone(@) THEN @ ELSE TaskCancel(@)]
    /\ IF Contains(_tasks, t)
       THEN _tasks' = ListRemove(_tasks, t) /\ callError' = "none"
       ELSE _tasks' = _tasks /\ callError' = "ValueError"
    /\ UNCHANGED <<vmvars, selvars, purevars, ops, _running, _selftask, loops, started>>

(* a task returns, raises, or is cancelled by somebody else *)
TaskReturns(t) ==
    /\ taskState[t] = "pending"
    /\ taskState' = [taskState EXCEPT ![t] = "ok"]
    /\ UNCHANGED <<vmvars, selvars, purevars, ops, _tasks, _running, _selftask, loops, started,
                   callError>>
TaskRaises(t) ==
    /\ taskState[t] = "pending"
    /\ taskState' = [taskState EXCEPT ![t] = "failed"]
    /\ UNCHANGED <<vmvars, selvars, purevars, ops, _tasks, _running, _selftask, loops, started,
                   callError>>
CancelTask(t) ==
    /\ taskState[t] = "pending"
    /\ taskState' = [taskState EXCEPT ![t] = TaskCancel(@)]
    /\ UNCHANGED <<vmvars, selvars, purevars, ops, _tasks, _running, _selftask, loops, started,
                   callError>>
TaskEndsCancelled(t) ==
    /\ taskState[t] = "cancelling"
    /\ taskState' = [taskState EXCEPT ![t] = "cancelled"]
    /\ UNCHANGED <<vmvars, selvars, purevars, ops, _tasks, _running, _selftask, loops, started,
                   callError>>

(* task_watcher.py:26-32.  Task.exception() returns the exception of a     *)
(* failed task, None for a task that returned, and raises CancelledError   *)
(* for a cancelled one.                                                    *)
Raised(kind, t) == [raised |-> kind, of |-> t]
NoRaise == Raised("none", 0)
RECURSIVE _tick(_)
_tick(i) ==
    IF i > Len(_tasks) THEN NoRaise
    ELSE LET t == _tasks[i]
         IN  IF ~TaskIsDone(taskState[t]) THEN _tick(i + 1)
             ELSE IF taskState[t] = "cancelled" THEN Raised("CancelledError", t)
             ELSE IF taskState[t] = "failed" THEN Raised("Exception", t)
             ELSE _tick(i + 1)

(* task_watcher.py:35-38: one iteration of a loop task *)
LoopRunning == Raised("running", 0)
Tick(l) ==
    /\ l \in 1..Len(loops)
    /\ loops[l] = LoopRunning
    /\ loops' = IF _tick(1) = NoRaise THEN loops ELSE [loops EXCEPT ![l] = _tick(1)]
    /\ UNCHANGED <<vmvars, selvars, purevars, ops, _tasks, taskState, _running, _selftask, started,
                   callError>>

(* task_watcher.py:34-43: _running is tested and never assigned *)
StartLoop ==
    /\ Len(started) < MaxStarts
    /\ IF _running
       THEN /\ started' = Append(started, _selftask)
            /\ UNCHANGED <<loops, _selftask>>
       ELSE /\ loops' = Append(loops, LoopRunning)
            /\ _selftask' = Len(loops) + 1
            /\ started' = Append(started, Len(loops) + 1)
    /\ callError' = "none"
    /\ UNCHANGED <<vmvars, selvars, purevars, ops, _tasks, taskState, _running>>

NextWatcher ==
    \/ \E t \in TaskIds : CreateTask(t)
    \/ \E t \in TaskIds : Register(t)
    \/ \E t \in TaskIds : NewTask(t)
    \/ \E t \in TaskIds : Unregister(t)
    \/ \E t \in TaskIds : TaskReturns(t)
    \/ \E t \in TaskIds : TaskRaises(t)
    \/ \E t \in TaskIds : CancelTask(t)
    \/ \E t \in TaskIds : TaskEndsCancelled(t)
    \/ \E l \in 1..MaxStarts : Tick(l)
    \/ StartLoop

SpecWatcher == InitWatcher /\ [][NextWatcher]_vars

(***************************************************************************)
(* Selector resolution on its own: every selector over every client list.  *)
(***************************************************************************)
PlayerNums == (0 - MaxClients - 2)..(MaxClients + 2)
Selectors ==
    {PlayerSelector(m, inv, nums) :
        m \in BOOLEAN, inv \in BOOLEAN, nums \in SUBSET (0..MaxClients + 1)}

InitSelect ==
    /\ script = << >>
    /\ program = << >>
    /\ \E n \in 0..MaxClients + 1 : clients = ClientList(n)
    /\ ip = 0
    /\ callstack = << >>
    /\ running = FALSE
    /\ killed = FALSE
    /\ pc = "idle"
    /\ error = "none"
    /\ tasks = << >>
    /\ completion = FALSE
    /\ trace = << >>
    /\ pollLog = << >>
    /\ dispatchLog = << >>
    /\ callSites = << >>
    /\ selIn \in Selectors
    /\ selOut = << >>
    /\ selDone = FALSE
    /\ ops = 0
    /\ InitWatch
    /\ logIndex = 0
    /\ numIn \in PlayerNums
    /\ numOut = Pending
    /\ _program = << >>
    /\ returned = << >>
    /\ compiles = 0

SelectPlayers ==
    /\ ~selDone
    /\ selOut' = _select_players(clients, selIn)
    /\ selDone' = TRUE
    /\ UNCHANGED <<vmvars, selIn, purevars, ops, watchvars>>

NextSelector ==
    /\ selDone
    /\ selIn' \in Selectors
    /\ selOut' = << >>
    /\ selDone' = FALSE
    /\ UNCHANGED <<vmvars, purevars, ops, watchvars>>

PlayerByNum ==
    /\ numOut = Pending
    /\ numOut' = player_by_num(clients, numIn)
    /\ UNCHANGED <<vmvars, selvars, numIn, _program, returned, compiles, ops, watchvars>>

NextNumber ==
    /\ numOut # Pending
    /\ numIn' \in PlayerNums
    /\ numOut' = Pending
    /\ UNCHANGED <<vmvars, selvars, _program, returned, compiles, ops, watchvars>>

NextSelect ==
    \/ SelectPlayers
    \/ NextSelector
    \/ PlayerByNum
    \/ NextNumber

SpecSelect == InitSelect /\ [][NextSelect]_vars

(***************************************************************************)
(* One Compiler object: constructed over a statement tree, with compile()   *)
(* called on it any number of times. compile() appends the instructions of  *)
(* every statement to self._program and returns that same list.             *)
(***************************************************************************)
InitCompiler ==
    /\ script \in Scripts
    /\ program = << >>
    /\ clients = << >>
    /\ ip = 0
    /\ callstack = << >>
    /\ running = FALSE
    /\ killed = FALSE
    /\ pc = "idle"
    /\ error = "none"
    /\ tasks = << >>
    /\ completion = FALSE
    /\ trace = << >>
    /\ pollLog = << >>
    /\ dispatchLog = << >>
    /\ callSites = << >>
    /\ selIn = NoSel
    /\ selOut = << >>
    /\ selDone = FALSE
    /\ ops = 0
    /\ InitWatch
    /\ logIndex = 0
    /\ InitPure

(* ir.py:153-156 *)
Compile ==
    /\ compiles < MaxCompiles
    /\ _program' = _program \o compile(script)
    /\ returned' = IF compiles = 0 THEN _program' ELSE returned
    /\ compiles' = compiles + 1
    /\ UNCHANGED <<vmvars, selvars, numIn, numOut, ops, watchvars>>

NextCompiler == Compile

SpecCompiler == InitCompiler /\ [][NextCompiler]_vars

(***************************************************************************)
(* Properties.                                                             *)
(***************************************************************************)
Range(seq) == {seq[i] : i \in 1..Len(seq)}
IndexRun(first, n) == [j \in 1..n |-> first + j - 1]
TraceIps(from) == [j \in 1..(Len(trace) - from) |-> trace[from + j].ip]

StraightLine(stmts) ==
    \A i \in 1..Len(stmts) :
        stmts[i].type = "command" /\ stmts[i].com.kind \in {"log", "sleep"}

(* the index at which statement k of the script starts in the program *)
StartOf(k) == Len(compile(SubSeq(script, 1, k - 1)))

(* after the jump_if fetched as trace entry n, the run fetched exactly      *)
(* `expect` and then stands at (or has fetched) the join                    *)
RanThenJoined(n, expect, join) ==
    LET rest == TraceIps(n)
        next == IF Len(rest) < Len(expect) THEN expect[Len(rest) + 1] ELSE join
    IN  /\ At(join).kind = "nop"
        /\ \A j \in 1..Len(rest) :
              IF j <= Len(expect) THEN rest[j] = expect[j]
              ELSE j = Len(expect) + 1 /\ rest[j] = join
        /\ Len(rest) <= Len(expect) =>
              ip = next /\ error = "none" /\ pc = "run" /\ running

\* C1: an `if` with straight-line branches of F and T instructions, compiled at
\* index p: after jump_if with the condition true the run executes exactly the
\* T instructions p+F+2 .. p+F+T+1 and stands at the nop p+F+T+2; with the
\* condition false exactly p+1 .. p+F, the skip jump p+F+1, and the same nop.
C1_IfRunsExactlyOneBranch ==
    \A k \in 1..Len(script) :
        (script[k].type = "if" /\ StraightLine(script[k].body)
                               /\ StraightLine(script[k].els)) =>
            LET p == StartOf(k)
                F == Len(compile(script[k].els))
                T == Len(compile(script[k].body))
                join == p + F + T + 2
            IN  \A n \in 1..Len(trace) :
                    trace[n].ip = p =>
                        IF trace[n].cond
                        THEN RanThenJoined(n, IndexRun(p + F + 2, T), join)
                        ELSE RanThenJoined(n, IndexRun(p + 1, F + 1), join)

C1_Witness ==
    /\ Len(script) = 2
    /\ script[2].type = "if"
    /\ StraightLine(script[2].body) /\ Len(script[2].body) = 2
    /\ StraightLine(script[2].els) /\ Len(script[2].els) = 1
    /\ Len(trace) = 4
    /\ trace[2].ip = 1 /\ trace[2].cond
    /\ trace[3].ip = 4 /\ trace[4].ip = 5
    /\ ip = 6 /\ At(6).kind = "nop"

JumpKinds == {"jump", "jump_if", "jump_ifn", "enter_until"}

\* C2: in every program, each jump, jump_if, jump_ifn and enter_until offset
\* added to the instruction's own index lies in [0, len(program)], and the
\* instruction pointer is within [0, len(program)] in every state of the run.
C2_PointerStaysInProgram ==
    /\ \A i \in 0..Len(program) - 1 :
          At(i).kind \in JumpKinds => (i + At(i).off) \in 0..Len(program)
    /\ ip \in 0..Len(program)

\* a loop compiled from a loop or while statement has jumped back twice
C2_Witness ==
    /\ Len(script) > 0
    /\ script[1].type \in {"while", "loop"}
    /\ \E n \in 1..Len(trace) : \E m \in (n + 1)..Len(trace) :
          /\ trace[n].ip = trace[m].ip
          /\ At(trace[n].ip).kind \in {"jump", "jump_if"}
          /\ At(trace[n].ip).off < 0
    /\ Len(trace) = MaxSteps
    /\ ip \in 0..Len(program) - 1

\* C3: the call stack holds, oldest first, the index following each call that
\* has not returned; a ret sets the pointer to the index following the most
\* recent such call and removes exactly that entry, so nested calls return in
\* the reverse of the call order and leave the stack as it was.
StackMatchesCalls ==
    /\ Len(callstack) = Len(callSites)
    /\ \A i \in 1..Len(callstack) :
          At(callSites[i]).kind = "call" /\ callstack[i] = callSites[i] + 1
RetReturnsToLastCall ==
    (trace' # trace /\ ip < Len(program) /\ Cur.kind = "ret" /\ Len(callstack) > 0) =>
        /\ ip' = callSites[Len(callSites)] + 1
        /\ At(ip' - 1).kind = "call"
        /\ callstack' = SubSeq(callstack, 1, Len(callstack) - 1)
        /\ error' = "none"
C3_ReturnsAreLIFO == [](StackMatchesCalls) /\ [][RetReturnsToLastCall]_vars

RetsIn(tr) == {n \in 1..Len(tr) : At(tr[n].ip).kind = "ret"}
C3_Witness ==
    \E N \in 2..MaxNest :
        /\ program = NestedCalls(N)
        /\ Cardinality(RetsIn(trace)) = N
        /\ \A n \in RetsIn(trace) : \A m \in RetsIn(trace) :
              n < m => trace[n].ip < trace[m].ip
        /\ callstack = << >>
        /\ pc = "returned"

\* C4: _select_players returns, in client-list order: the whole list when mass
\* is set; otherwise exactly the clients whose 0-based index is (not inverted)
\* or is not (inverted) in player_nums.  The inverted and the non-inverted
\* result for the same player_nums are disjoint and together all clients.
InListOrder(seq) == \A a \in 1..Len(seq) : \A b \in 1..Len(seq) : a < b => seq[a] < seq[b]
IndexedBy(nums, inverted) ==
    {clients[i + 1] : i \in {j \in 0..Len(clients) - 1 : (j \in nums) # inverted}}
C4_SelectorResolution ==
    selDone =>
        IF selIn.mass THEN selOut = clients
        ELSE /\ Range(selOut) = IndexedBy(selIn.player_nums, selIn.inverted)
             /\ InListOrder(selOut)
             /\ LET other == _select_players(clients, [selIn EXCEPT !.inverted = ~@])
                IN  /\ Range(selOut) \cap Range(other) = {}
                    /\ Range(selOut) \cup Range(other) = Range(clients)

C4_Witness ==
    /\ selDone
    /\ Len(clients) = 3
    /\ selIn = PlayerSelector(FALSE, TRUE, {0})
    /\ selOut = <<1, 2>>

(***************************************************************************)
(* waitfor: the polls of task i of the waitfor instruction at index q.     *)
(***************************************************************************)
WaitforPolls(q, i) == SelectSeq(pollLog, LAMBDA e : e.ip = q /\ e.task = i)
WaitforAt(q) ==
    /\ At(q).kind = "deimos_call"
    /\ At(q).act = "waitfor"
    /\ At(q).args[1].s \in WaitforMethodMap \cup {"window"}
CompletionAt(q) == LastArg(At(q).args).b
FetchedOnce(q) == Cardinality({n \in 1..Len(trace) : trace[n].ip = q}) = 1
InstrCompleted(q) ==
    \E n \in 1..Len(trace) :
        trace[n].ip = q /\ (n < Len(trace) \/ pc \in {"run", "returned"})

PhaseOrder(polls, compl) ==
    /\ \A a \in 1..Len(polls) : \A b \in 1..Len(polls) :
          (a < b /\ polls[a].invert) => polls[b].invert
    /\ \A a \in 1..Len(polls) :
          /\ polls[a].invert => compl
          /\ (~polls[a].invert /\ polls[a].result) =>
                (a = Len(polls) \/ polls[a + 1].invert)
          /\ (polls[a].invert /\ (a = 1 \/ ~polls[a - 1].invert)) =>
                (a > 1 /\ polls[a - 1].result)
          /\ (polls[a].invert /\ ~polls[a].result) => a = Len(polls)
          /\ (~compl /\ polls[a].result) => a = Len(polls)
WaitOver(polls, compl) ==
    /\ Len(polls) > 0
    /\ LET last == polls[Len(polls)]
       IN  IF compl THEN last.invert /\ ~last.result
           ELSE ~last.invert /\ last.result

\* C5: for every task of a waitfor instruction, the polls of the until-true
\* phase all come before the polls of the until-false phase, which is entered
\* only on completion and only right after a poll that observed true; the task
\* and the instruction are over only after the last poll observed false in the
\* second phase (completion) or observed true for the first time (no completion).
C5_WaitforPhases ==
    \A q \in 0..Len(program) - 1 :
        (WaitforAt(q) /\ FetchedOnce(q)) =>
            \A i \in 1..Len(_select_players(clients, At(q).sel)) :
                /\ PhaseOrder(WaitforPolls(q, i), CompletionAt(q))
                /\ InstrCompleted(q) => WaitOver(WaitforPolls(q, i), CompletionAt(q))
                /\ (pc = "dispatch" /\ ip = q /\ tasks[i].state = "done") =>
                      WaitOver(WaitforPolls(q, i), CompletionAt(q))

C5_Witness ==
    \E q \in 0..Len(program) - 1 :
        /\ WaitforAt(q) /\ CompletionAt(q)
        /\ InstrCompleted(q)
        /\ Len(clients) = 1
        /\ Len(WaitforPolls(q, 1)) = 4
        /\ ~WaitforPolls(q, 1)[1].result
        /\ WaitforPolls(q, 1)[3].invert /\ WaitforPolls(q, 1)[3].result

\* C6: the claim.  if (window_visible "X") { sendkey A } else { sendkey B } on
\* one client whose window is not visible: when the run is over, sendkey B was
\* dispatched exactly once, sendkey A never, and no error was raised.
SendKeys == SelectSeq(dispatchLog, LAMBDA d : d.act = "sendkey")
C6_SendKeyBOnceNoError ==
    (/\ script = IfSendKey
     /\ Len(clients) = 1
     /\ \A n \in 1..Len(trace) : ~trace[n].cond
     /\ pc \in {"raised", "returned"}) =>
        /\ error = "none"
        /\ Len(SendKeys) = 1
        /\ SendKeys[1].arg = "B"

\* C7: the claim.  waitfor dialog with completion on one client whose
\* predicate answers false, false, true, true, false: when the run is over
\* there were exactly 3 until-true polls and at least 2 until-false polls.
PollResults == [n \in 1..Len(pollLog) |-> pollLog[n].result]
PollsWith(invert) == {n \in 1..Len(pollLog) : pollLog[n].invert = invert}
C7_ThreeThenTwoPolls ==
    (/\ script = <<CommandStmt(ComWaitfor("dialog", TRUE))>>
     /\ Len(clients) = 1
     /\ PollResults = <<FALSE, FALSE, TRUE, TRUE, FALSE>>
     /\ pc = "returned") =>
        /\ Cardinality(PollsWith(FALSE)) = 3
        /\ Cardinality(PollsWith(TRUE)) >= 2

\* C8: a dispatch runs one operation per selected client; the pointer advances
\* by 1 only when every operation is done; when one fails the others are no
\* longer running (cancelled or over), the step raises with the pointer where
\* it was, and no operation is pending when the step is left.
FanOutState ==
    /\ pc = "dispatch" =>
          LET sel == _select_players(clients, Cur.sel)
          IN  /\ Len(tasks) = Len(sel)
              /\ \A i \in 1..Len(sel) : tasks[i].client = sel[i]
    /\ pc # "dispatch" => \A i \in 1..Len(tasks) : Terminal(tasks[i])
    /\ GroupFailed(tasks) => \A i \in 1..Len(tasks) : tasks[i].state # "running"
FanOutStep ==
    /\ (pc = "dispatch" /\ pc' = "dispatch") => ip' = ip
    /\ (pc = "dispatch" /\ pc' # "dispatch") =>
          /\ \A i \in 1..Len(tasks) : Terminal(tasks[i])
          /\ IF GroupFailed(tasks)
             THEN error' # "none" /\ pc' = "raised" /\ ip' = ip
             ELSE /\ \A i \in 1..Len(tasks) : tasks[i].state = "done"
                  /\ error' = "none" /\ ip' = ip + 1
C8_FanOutJoin == [](FanOutState) /\ [][FanOutStep]_vars

C8_Witness ==
    /\ pc = "raised"
    /\ error = "ExceptionGroup"
    /\ Cur.act = "teleport"
    /\ Len(tasks) = 2
    /\ tasks[1].state = "cancelled"
    /\ tasks[2].state = "failed"

\* C9: the claim.  An until statement with a straight-line body: when the run
\* is over the body has been executed and enter_until did not raise.
C9_UntilRunsBody ==
    (/\ Len(script) > 0
     /\ script[1].type = "until"
     /\ StraightLine(script[1].body)
     /\ Len(script[1].body) > 0
     /\ pc \in {"raised", "returned"}) =>
        /\ \E n \in 1..Len(trace) : trace[n].ip = 1
        /\ ~(error # "none" /\ At(ip).kind = "enter_until")

\* C10: the step that raises leaves running and killed as they were and ends
\* the run; after it nothing of the VM changes (the error is not caught and
\* execution does not go on).
ErrorLeavesRun ==
    /\ (error = "none" /\ error' # "none") =>
          running' = running /\ killed' = killed /\ pc' = "raised"
    /\ error # "none" => UNCHANGED vmvars
C10_ErrorsPropagate == [](error # "none" <=> pc = "raised") /\ [][ErrorLeavesRun]_vars

C10_Witness ==
    /\ pc = "raised"
    /\ error = "VMError"
    /\ Cur.kind = "call"
    /\ running
    /\ ~killed

(***************************************************************************)
(* call and ret                                                            *)
(***************************************************************************)
LabelsAbove(p, name) ==
    {j \in 0..p - 1 : At(j).kind = "label" /\ At(j).ident = name}
LabelsBelow(p, name) ==
    {j \in p + 1..Len(program) - 1 : At(j).kind = "label" /\ At(j).ident = name}
Greatest(S) == CHOOSE j \in S : \A k \in S : k <= j
Executes(kind) == trace' # trace /\ ip < Len(program) /\ Cur.kind = kind

\* C11: a call at index p pushes p+1 and moves the pointer to the greatest
\* index below p that holds a label of the called name; when no label of that
\* name is above the call (labels below it do not count) the step raises a
\* VMError and the pointer stays at p.
CallResolvesUpwards ==
    Executes("call") =>
        /\ callstack' = Append(callstack, ip + 1)
        /\ IF LabelsAbove(ip, Cur.ident) # {}
           THEN ip' = Greatest(LabelsAbove(ip, Cur.ident)) /\ error' = "none"
           ELSE ip' = ip /\ error' = "VMError" /\ pc' = "raised"
C11_CallNearestLabelAbove == [][CallResolvesUpwards]_vars

\* a call passed over an earlier label of the same name to the nearest one,
\* and a later call whose only label is below it has raised
C11_Witness ==
    /\ pc = "raised"
    /\ error = "VMError"
    /\ Cur.kind = "call"
    /\ LabelsAbove(ip, Cur.ident) = {}
    /\ LabelsBelow(ip, Cur.ident) # {}
    /\ \E n \in 1..Len(trace) - 1 :
          /\ At(trace[n].ip).kind = "call"
          /\ Cardinality(LabelsAbove(trace[n].ip, At(trace[n].ip).ident)) >= 2
          /\ trace[n + 1].ip = Greatest(LabelsAbove(trace[n].ip, At(trace[n].ip).ident))

\* C12: a ret on an empty call stack raises a VMError, the error an unresolved
\* call raises, and leaves the pointer where it is; a ret on a non-empty call
\* stack moves the pointer to the top return address and removes it.
RetPopsOrVMError ==
    Executes("ret") =>
        IF callstack = << >>
        THEN error' = "VMError" /\ pc' = "raised" /\ ip' = ip
        ELSE /\ ip' = callstack[Len(callstack)]
             /\ callstack' = SubSeq(callstack, 1, Len(callstack) - 1)
             /\ error' = "none"
C12_RetUnderflowIsVMError == [][RetPopsOrVMError]_vars

(***************************************************************************)
(* Lifecycle                                                               *)
(***************************************************************************)
\* C13: a kill instruction sets killed, clears running and leaves the pointer
\* and the call stack as they are; once killed is set no operation clears it
\* and no instruction is executed any more.
KillStep ==
    Executes("kill") =>
        killed' /\ ~running' /\ ip' = ip /\ callstack' = callstack
KilledIsTerminal == killed => (killed' /\ trace' = trace)
C13_KilledIsTerminal == [][KillStep /\ KilledIsTerminal]_vars

\* C14: when a step that executed an instruction is over, a pointer at or past
\* the end of the program means running is false, with killed as it was; a
\* pointer inside the program, after an instruction other than kill, means
\* running is still true.
StepCompleted ==
    \/ pc = "run" /\ trace' # trace /\ pc' = "run"
    \/ pc \in {"dispatch", "logging"} /\ pc' = "run"
StopsExactlyAtEnd ==
    StepCompleted =>
        /\ ip' >= Len(program) => (~running' /\ killed' = killed)
        /\ (ip' < Len(program) /\ Cur.kind # "kill") => running'
C14_StopsExactlyAtEnd == [][StopsExactlyAtEnd]_vars

\* a run of two or more instructions has ended normally: running stayed true
\* after the first and is false at the end, and the VM is not killed
C14_Witness ==
    /\ pc = "returned"
    /\ ip = Len(program)
    /\ Len(trace) >= 2
    /\ trace[Len(trace)].ip = ip - 1
    /\ ~running
    /\ ~killed

\* C15: a load leaves the pointer at 0 and the call stack empty, whatever the
\* program run before has left behind.
IsLoad == pc = "idle" /\ script' # script /\ script' # << >>
LoadResetsState == IsLoad => (ip' = 0 /\ callstack' = << >>)
C15_LoadResetsState == [][LoadResetsState]_vars

(***************************************************************************)
(* Supervisor                                                              *)
(***************************************************************************)
Watched(list) == {list[i] : i \in 1..Len(list)}

\* C16: when unregister(op) returns, op has had cancel() called if it was not
\* finished and is untouched if it was, op is not in the watch list any more,
\* and every other task is watched and cancelled exactly as before.
UnregisterEffect(t) ==
    (Unregister(t) /\ callError' = "none") =>
        /\ ~TaskIsDone(taskState[t]) => taskState'[t] \in {"cancelling", "cancelled"}
        /\ TaskIsDone(taskState[t]) => taskState'[t] = taskState[t]
        /\ t \notin Watched(_tasks')
        /\ \A u \in TaskIds \ {t} :
              /\ u \in Watched(_tasks) => u \in Watched(_tasks')
              /\ taskState'[u] = taskState[u]
C16_UnregisterRemoves == [][\A t \in TaskIds : UnregisterEffect(t)]_vars

\* C17: a tick raises exactly when some watched task has finished with an
\* exception, and then raises the exception of the first such task of the
\* watch list; it leaves the watch list as it is and its exception ends the
\* loop that ticked.
FailedWatched == {i \in 1..Len(_tasks) : taskState[_tasks[i]] = "failed"}
TickEffect(l) ==
    Tick(l) =>
        /\ (loops'[l] # LoopRunning) <=> (FailedWatched # {})
        /\ FailedWatched # {} =>
              loops'[l] = Raised("Exception",
                                 _tasks[CHOOSE i \in FailedWatched :
                                           \A j \in FailedWatched : i <= j])
        /\ _tasks' = _tasks
C17_TickRaisesFirstFailure == [][\A l \in 1..MaxStarts : TickEffect(l)]_vars

\* C18: however often start_loop is called, it creates at most one loop task
\* and every call returns the task the first call returned.
C18_StartLoopIdempotent ==
    /\ Len(loops) <= 1
    /\ \A i \in 1..Len(started) : started[i] = started[1]

(***************************************************************************)
(* waitfor over several clients                                            *)
(***************************************************************************)
AnyWaitforAt(q) ==
    /\ At(q).kind = "deimos_call"
    /\ At(q).act = "waitfor"
    /\ At(q).args[1].s \in WaitforMethodMap \cup {"window", "zonechange"}
SelectedAt(q) == _select_players(clients, At(q).sel)
Observed(q, c, pred, result) ==
    \E n \in 1..Len(pollLog) :
        /\ pollLog[n].ip = q
        /\ pollLog[n].polled = c
        /\ pollLog[n].pred = pred
        /\ pollLog[n].result = result

\* C19: every poll of a waitfor task asks the client the task was created for,
\* and a waitfor instruction is over only after the predicate was observed to
\* hold on each of the selected clients.
C19_EachClientOwnPredicate ==
    \A q \in 0..Len(program) - 1 :
        (AnyWaitforAt(q) /\ FetchedOnce(q)) =>
            /\ \A n \in 1..Len(pollLog) :
                  pollLog[n].ip = q =>
                      pollLog[n].polled = SelectedAt(q)[pollLog[n].task]
            /\ InstrCompleted(q) =>
                  \A i \in 1..Len(SelectedAt(q)) :
                      Observed(q, SelectedAt(q)[i], At(q).args[1].s, TRUE)

\* C20: for a waitfor zonechange with completion, the loading phase starts
\* only after a changed zone was observed on each selected client, and the
\* instruction is over only after loading was observed true on each of them.
ZoneCompletionAt(q) ==
    /\ At(q).kind = "deimos_call"
    /\ At(q).act = "waitfor"
    /\ At(q).args[1].s = "zonechange"
    /\ CompletionAt(q)
LoadingPhaseAt(q) ==
    /\ pc = "dispatch"
    /\ ip = q
    /\ \E i \in 1..Len(tasks) : tasks[i].pred = "loading"
C20_ZoneThenLoadingTrue ==
    \A q \in 0..Len(program) - 1 :
        (ZoneCompletionAt(q) /\ FetchedOnce(q)) =>
            /\ (LoadingPhaseAt(q) \/ InstrCompleted(q)) =>
                  \A i \in 1..Len(SelectedAt(q)) :
                      Observed(q, SelectedAt(q)[i], "zonechange", TRUE)
            /\ InstrCompleted(q) =>
                  \A i \in 1..Len(SelectedAt(q)) :
                      Observed(q, SelectedAt(q)[i], "loading", TRUE)

\* C21: a log_window over several clients has the window-text fetch of every
\* selected client started together (none waits for another client's fetch),
\* moves the pointer on by one only when all fetches are over, and a window
\* that is not found fails the step with the pointer left where it was.
LogWindowSelection == _select_players(clients, Cur.sel)
LogWindowAdvance ==
    (pc = "logging" /\ pc' # "logging") =>
        \/ pc' = "run" /\ ip' = ip + 1 /\ logIndex = Len(LogWindowSelection)
        \/ pc' = "raised" /\ ip' = ip
C21_LogWindowConcurrent ==
    /\ [](pc = "logging" =>
            \A i \in 1..Len(LogWindowSelection) : i <= logIndex)
    /\ [][LogWindowAdvance]_vars

\* C22: player_by_num returns the client at position num - 1 for a number
\* within 1..len(clients), and fails with a VM runtime error for every number
\* outside that range, zero and negative numbers included.
C22_PlayerByNumRange ==
    numOut # Pending =>
        IF numIn \in 1..Len(clients)
        THEN numOut = [raised |-> "none", client |-> clients[numIn]]
        ELSE numOut.raised = "VMError"

(* after trace entry n the run fetched the indices of `expect` in order, as *)
(* far as it has got                                                        *)
RanThen(n, expect) ==
    LET rest == TraceIps(n)
    IN  /\ \A j \in 1..Len(rest) : j <= Len(expect) => rest[j] = expect[j]
        /\ Len(rest) < Len(expect) =>
              ip = expect[Len(rest) + 1] /\ error = "none" /\ pc = "run" /\ running

\* C23: a `while` with a straight-line body of B instructions, compiled at
\* index p: the entry jump_ifn at p carries offset B + 2 and the loop-back
\* jump_if stands at p + B + 1; whenever either of them finds the condition
\* true the run executes the whole body p+1 .. p+B and comes to the loop-back
\* jump_if again, and whenever it finds the condition false the run goes to
\* the trailing nop at p + B + 2 (so the body is not executed at all when the
\* condition is false on entry).
C23_WhileRunsBodyWhileTrue ==
    \A k \in 1..Len(script) :
        (script[k].type = "while" /\ StraightLine(script[k].body)) =>
            LET p == StartOf(k)
                B == Len(compile(script[k].body))
                back == p + B + 1
                exit == p + B + 2
            IN  /\ At(p).kind = "jump_ifn" /\ At(p).off = B + 2
                /\ At(back).kind = "jump_if"
                /\ At(exit).kind = "nop"
                /\ \A n \in 1..Len(trace) :
                      trace[n].ip \in {p, back} =>
                          IF trace[n].cond
                          THEN RanThen(n, IndexRun(p + 1, B + 1))
                          ELSE RanThen(n, <<exit>>)

C23_Witness ==
    /\ Len(script) = 1
    /\ script[1].type = "while"
    /\ StraightLine(script[1].body) /\ Len(script[1].body) = 2
    /\ Len(trace) = 8
    /\ TraceIps(0) = <<0, 1, 2, 3, 1, 2, 3, 4>>
    /\ trace[1].cond /\ trace[4].cond /\ ~trace[7].cond
    /\ At(4).kind = "nop"

\* C24: a block definition with a body of B instructions, compiled at index p:
\* the leading jump at p carries offset B + 3 and takes the run to the nop at
\* p + B + 3 with the call stack unchanged, so that falling through fetches
\* neither the label nor the body nor the ret; the label is fetched only
\* directly after a call, and the body and the ret only from inside the block
\* or on the return of a call made inside it.
BlockLaidOut(p, B) ==
    /\ At(p).kind = "jump" /\ At(p).off = B + 3
    /\ At(p + 1).kind = "label"
    /\ At(p + B + 2).kind = "ret"
    /\ At(p + B + 3).kind = "nop"
BlockEnteredByCall(p, B) ==
    \A n \in 1..Len(trace) :
        /\ trace[n].ip = p => RanThen(n, <<p + B + 3>>)
        /\ trace[n].ip = p + 1 => n > 1 /\ At(trace[n - 1].ip).kind = "call"
        /\ trace[n].ip \in (p + 2)..(p + B + 2) =>
              /\ n > 1
              /\ \/ trace[n - 1].ip \in (p + 1)..(p + B + 2)
                 \/ At(trace[n - 1].ip).kind = "ret"
SkipKeepsCallstack ==
    \A k \in 1..Len(script) :
        (script[k].type = "blockdef" /\ Executes("jump") /\ ip = StartOf(k)) =>
            /\ ip' = ip + Len(compile(script[k].body)) + 3
            /\ callstack' = callstack
            /\ error' = "none"
C24_BlockSkippedUnlessCalled ==
    /\ [](\A k \in 1..Len(script) :
             script[k].type = "blockdef" =>
                 /\ BlockLaidOut(StartOf(k), Len(compile(script[k].body)))
                 /\ BlockEnteredByCall(StartOf(k), Len(compile(script[k].body))))
    /\ [][SkipKeepsCallstack]_vars

C24_Witness ==
    /\ Len(script) = 2
    /\ script[1].type = "blockdef" /\ Len(script[1].body) = 1
    /\ TraceIps(0) = <<0, 4>>
    /\ At(1).kind = "label" /\ At(3).kind = "ret" /\ At(4).kind = "nop"
    /\ callstack = << >>

\* C25: the program compile() returned stays as it was returned: a further
\* compile() on the same compiler leaves the returned list with the length and
\* the instructions it had, and returns a program equal to the first, which is
\* the compilation of the compiler's statement tree.
C25_ReturnedProgramImmutable ==
    compiles >= 1 =>
        /\ returned = compile(script)
        /\ _program = returned

\* C26: in a run of a compiled program, a step that fetches a nop, an
\* enter_until, a set_var, a dec_var or a load_playstyle instruction ends
\* without an error and with the pointer moved on.
C26_EmittedKindsAreStepped ==
    [][(/\ script # << >>
        /\ trace' # trace
        /\ ip < Len(program)
        /\ Cur.kind \in {"nop", "enter_until", "set_var", "dec_var", "load_playstyle"})
       => (error' = "none" /\ ip' # ip)]_vars

\* C27: a step that fails with a runtime error leaves the instruction pointer
\* and the call stack as they were before the step (a call whose label is not
\* found leaves no return address behind; a failing deimos_call or log_window
\* does not move the pointer).
StepFails == error = "none" /\ error' # "none"
C27_FailedStepChangesNothing ==
    [][StepFails => (ip' = ip /\ callstack' = callstack)]_vars

\* C28: in every run of a compiled program, a ret is executed only with a
\* non-empty call stack, and every entry of the call stack is an index that
\* directly follows a call instruction of the program.
RetOnlyInsideCall ==
    (script # << >> /\ Executes("ret")) => Len(callstack) > 0
C28_NoUnderflowInCompiledPrograms ==
    /\ [](script # << >> =>
            \A i \in 1..Len(callstack) :
                /\ callstack[i] \in 1..Len(program)
                /\ At(callstack[i] - 1).kind = "call")
    /\ [][RetOnlyInsideCall]_vars

\* C29: a tick over a watch list none of whose tasks ended with an exception
\* (every finished one returned or was cancelled) raises nothing, and the loop
\* task goes on running.
NoWatchedFailure ==
    \A i \in 1..Len(_tasks) : taskState[_tasks[i]] # "failed"
C29_TickIgnoresCleanlyFinished ==
    [][\A l \in 1..MaxStarts :
          (Tick(l) /\ NoWatchedFailure) => loops'[l] = LoopRunning]_vars

\* C30: over every sequence of load, reset, run and stop, a step fetches only
\* at a pointer within 0 .. len(program) - 1: whenever run is about to step,
\* the pointer is inside the program (so run on an empty program, and run
\* again after a normal termination, end without a read outside the program).
C30_FetchWithinProgram ==
    (pc = "run" /\ running) => ip \in 0..Len(program) - 1

====
